---- MODULE Spec2Model ----
(***************************************************************************)
(* The editor of src/main.rs as a state machine: the Editor struct, one    *)
(* action per arm of Editor::update, and the asynchronous functions        *)
(* load_file, pick_file and save_file run step by step against a file      *)
(* dialog and a filesystem.                                                 *)
(***************************************************************************)
EXTENDS Bags, FiniteSets, Integers, Sequences, TLC

\* ------------------------------------------------------------------ bounds
\* longest text (in characters) of a file present at startup, and longest
\* buffer (lines joined by newlines) an edit may produce
MaxLen == 1
\* asynchronous operations issued and not yet handled by update
MaxInFlight == 2
\* the largest line and column index of the cursor in CursorSpec
MaxCursor == 10

\* ------------------------------------------------------------- value sets
NL == "\n"
Chars == {"a", NL}

None == <<>>
Some(x) == <<x>>

\* default_load_file(): a String turned into a PathBuf, hence valid Unicode
default_load_file == "/editor/src/main.rs"
\* a path whose bytes are not valid Unicode, as a file dialog can return
RawPath == "/home/\\xFF.txt"
\* the paths the dialogs return
Paths == {default_load_file, RawPath}

\* std::io::ErrorKind values the reads and writes fail with
ErrorKinds == {"NotFound", "PermissionDenied"}

\* enum Error
DialogClosed == <<"DialogClosed">>
IOFailed(kind) == <<"IOFailed", kind>>

\* highlighter::Theme values chosen in the pick_list
SolarizedDark == "SolarizedDark"
InspiredGitHub == "InspiredGitHub"
Themes == {SolarizedDark, InspiredGitHub}

\* all texts of at most n characters
RECURSIVE TextsUpTo(_)
TextsUpTo(n) ==
    IF n = 0 THEN {<<>>}
    ELSE LET shorter == TextsUpTo(n - 1)
         IN  shorter \cup {Append(t, c) : t \in {s \in shorter : Len(s) = n - 1}, c \in Chars}

\* ------------------------------------------------ text_editor::Content
\* the lines of a text: the pieces between newlines, so a text that ends
\* with a newline has an empty last line
RECURSIVE SplitLines(_)
SplitLines(t) ==
    IF \A i \in 1..Len(t) : t[i] # NL THEN <<t>>
    ELSE LET i == CHOOSE k \in 1..Len(t) : t[k] = NL /\ \A j \in 1..(k - 1) : t[j] # NL
         IN  <<SubSeq(t, 1, i - 1)>> \o SplitLines(SubSeq(t, i + 1, Len(t)))

\* the lines joined with newlines
RECURSIVE JoinLines(_)
JoinLines(ls) ==
    IF Len(ls) = 1 THEN ls[1]
    ELSE ls[1] \o <<NL>> \o JoinLines(Tail(ls))

\* with_text, were it to ignore the text it is given
with_text_blank(t) == [lines |-> <<<<>>>>, cursor |-> <<0, 0>>]

\* Content::with_text: the lines of the text, cursor at the start
with_text(t) == [lines |-> SplitLines(t), cursor |-> <<0, 0>>]

\* Content::new
new_content == with_text(<<>>)

\* Content::text: the lines joined with newlines, and a newline appended
\* when the result does not end with one
text(c) ==
    LET joined == JoinLines(c.lines)
    IN  IF joined # <<>> /\ joined[Len(joined)] = NL THEN joined
        ELSE Append(joined, NL)

\* Content::cursor_position
cursor_position(c) == c.cursor

\* text_editor::Action values the widget produces
Actions == {<<"Insert", "a">>, <<"Enter">>, <<"Backspace">>}

ReplaceLine(ls, i, new) == SubSeq(ls, 1, i - 1) \o new \o SubSeq(ls, i + 1, Len(ls))

\* Content::perform
perform(c, action) ==
    LET l    == c.cursor[1] + 1
        col  == c.cursor[2]
        line == c.lines[l]
    IN  CASE action[1] = "Insert" ->
               [lines  |-> ReplaceLine(c.lines, l,
                              <<SubSeq(line, 1, col) \o <<action[2]>> \o SubSeq(line, col + 1, Len(line))>>),
                cursor |-> <<l - 1, col + 1>>]
          [] action[1] = "Enter" ->
               [lines  |-> ReplaceLine(c.lines, l,
                              <<SubSeq(line, 1, col), SubSeq(line, col + 1, Len(line))>>),
                cursor |-> <<l, 0>>]
          [] action[1] = "Backspace" ->
               IF col > 0
               THEN [lines  |-> ReplaceLine(c.lines, l,
                                   <<SubSeq(line, 1, col - 1) \o SubSeq(line, col + 1, Len(line))>>),
                     cursor |-> <<l - 1, col - 1>>]
               ELSE IF l > 1
               THEN [lines  |-> SubSeq(c.lines, 1, l - 2) \o <<c.lines[l - 1] \o line>>
                                   \o SubSeq(c.lines, l + 1, Len(c.lines)),
                     cursor |-> <<l - 2, Len(c.lines[l - 1])>>]
               ELSE c

\* ---------------------------------------------------------------- state
VARIABLES
    content,    \* Editor.content
    error,      \* Editor.error : Option<Error>
    path,       \* Editor.path : Option<PathBuf>
    theme,      \* Editor.theme
    tasks,      \* the futures handed to Task::perform that are still running
    queue,      \* results of finished futures, not yet passed to update
    fs,         \* the filesystem: path -> None (no file) or Some(text)
    written,    \* history: path -> Some(t) while the file holds the text t
                \* stored by a save that succeeded, None otherwise
    last        \* history: the message update handled last ("new" before the first)

vars == <<content, error, path, theme, tasks, queue, fs, written, last>>

editor == <<content, error, path, theme>>

\* a future: the function it runs, where it is, its `path` argument, the
\* path it works on, the text it writes; dialog: a dialog has been shown
Task(fn, pc, arg, p, t, dialog) ==
    [fn |-> fn, pc |-> pc, arg |-> arg, path |-> p, text |-> t, dialog |-> dialog]

\* a finished future's output wrapped by Message::FileOpened / FileSaved:
\* ok, path, text, error are the Result; fn, arg, dialog and saved are
\* history (the function the future ran, its `path` argument, whether it
\* showed a dialog, and for a load written[path] when the file was read)
Msg(kind, ok, p, t, e, task, saved) ==
    [msg |-> kind, ok |-> ok, path |-> p, text |-> t, error |-> e,
     fn |-> task.fn, arg |-> task.arg, dialog |-> task.dialog, saved |-> saved]

Step(op, m) == [op |-> op, m |-> m]
NoTask == Task("", "", None, None, <<>>, FALSE)
NoMsg == Msg("", FALSE, None, <<>>, None, NoTask, None)

InFlight == BagCardinality(tasks) + Len(queue)

Replace(old, new) == (tasks (-) SetToBag({old})) (+) SetToBag({new})
Finish(old) == tasks (-) SetToBag({old})

\* ------------------------------------------------------------ Editor::new
\* new, were it to start with the open dialog instead of the default file
new_asks ==
    /\ content = new_content
    /\ error = None
    /\ path = None
    /\ theme = SolarizedDark
    /\ tasks = SetToBag({Task("pick_file", "dialog", None, None, <<>>, FALSE)})
    /\ queue = <<>>

new ==
    /\ content = new_content
    /\ error = None
    /\ path = None
    /\ theme = SolarizedDark
    /\ tasks = SetToBag({Task("load_file", "read", Some(default_load_file),
                              Some(default_load_file), <<>>, FALSE)})
    /\ queue = <<>>

Init ==
    /\ new
    /\ fs \in [Paths -> {None} \cup {Some(t) : t \in TextsUpTo(MaxLen)}]
    /\ written = [p \in Paths |-> None]
    /\ last = Step("new", NoMsg)

\* --------------------------------------------------------- Editor::update
\* the Edit arm, were it to perform the action on a fresh Content
Edit_on_fresh ==
    \E action \in Actions :
        /\ Len(JoinLines(perform(content, action).lines)) <= MaxLen
        /\ content' = perform(new_content, action)
        /\ last' = Step("Edit", NoMsg)
        /\ UNCHANGED <<error, path, theme, tasks, queue, fs, written>>

\* Message::Edit(action)
Edit ==
    \E action \in Actions :
        /\ Len(JoinLines(perform(content, action).lines)) <= MaxLen
        /\ content' = perform(content, action)
        /\ last' = Step("Edit", NoMsg)
        /\ UNCHANGED <<error, path, theme, tasks, queue, fs, written>>

\* the FileOpened(Ok) arm, were it to keep a document that is not empty
FileOpenedOk_keeps_edits ==
    /\ queue # <<>>
    /\ Head(queue).msg = "FileOpened"
    /\ Head(queue).ok
    /\ content' = IF content = new_content THEN with_text(Head(queue).text) ELSE content
    /\ path' = Some(Head(queue).path)
    /\ queue' = Tail(queue)
    /\ last' = Step("FileOpened", Head(queue))
    /\ UNCHANGED <<error, theme, tasks, fs, written>>

\* the FileOpened(Ok) arm, were it to keep a path that is already set
FileOpenedOk_first_wins ==
    /\ queue # <<>>
    /\ Head(queue).msg = "FileOpened"
    /\ Head(queue).ok
    /\ content' = with_text(Head(queue).text)
    /\ path' = IF path = None THEN Some(Head(queue).path) ELSE path
    /\ queue' = Tail(queue)
    /\ last' = Step("FileOpened", Head(queue))
    /\ UNCHANGED <<error, theme, tasks, fs, written>>

\* Message::FileOpened(Ok((path, content)))
FileOpenedOk ==
    /\ queue # <<>>
    /\ Head(queue).msg = "FileOpened"
    /\ Head(queue).ok
    /\ content' = with_text(Head(queue).text)
    /\ path' = Some(Head(queue).path)
    /\ queue' = Tail(queue)
    /\ last' = Step("FileOpened", Head(queue))
    /\ UNCHANGED <<error, theme, tasks, fs, written>>

\* the FileOpened(Err) arm, were it to reset the document as well
FileOpenedErr_resets ==
    /\ queue # <<>>
    /\ Head(queue).msg = "FileOpened"
    /\ ~Head(queue).ok
    /\ error' = Some(Head(queue).error)
    /\ content' = new_content
    /\ path' = None
    /\ queue' = Tail(queue)
    /\ last' = Step("FileOpened", Head(queue))
    /\ UNCHANGED <<theme, tasks, fs, written>>

\* Message::FileOpened(Err(error))
FileOpenedErr ==
    /\ queue # <<>>
    /\ Head(queue).msg = "FileOpened"
    /\ ~Head(queue).ok
    /\ error' = Some(Head(queue).error)
    /\ queue' = Tail(queue)
    /\ last' = Step("FileOpened", Head(queue))
    /\ UNCHANGED <<content, path, theme, tasks, fs, written>>

\* Message::Open
Open ==
    /\ InFlight < MaxInFlight
    /\ tasks' = tasks (+) SetToBag({Task("pick_file", "dialog", None, None, <<>>, FALSE)})
    /\ last' = Step("Open", NoMsg)
    /\ UNCHANGED <<content, error, path, theme, queue, fs, written>>

\* the New arm, were it to forget the path
New_keeps_path ==
    /\ content' = new_content
    /\ last' = Step("New", NoMsg)
    /\ UNCHANGED <<error, path, theme, tasks, queue, fs, written>>

\* Message::New
New ==
    /\ content' = new_content
    /\ path' = None
    /\ last' = Step("New", NoMsg)
    /\ UNCHANGED <<error, theme, tasks, queue, fs, written>>

\* save_file, were it to ask for a file even when it is given a path
save_file_always_asks(p, t) == Task("save_file", "dialog", p, None, t, FALSE)

\* the future save_file(path, text) when it starts: with a path it goes
\* straight to the write, without one it shows the dialog first
save_file(p, t) ==
    IF p # None THEN Task("save_file", "write", p, p, t, FALSE)
    ELSE Task("save_file", "dialog", p, None, t, FALSE)

\* Message::Save
Save ==
    /\ InFlight < MaxInFlight
    /\ tasks' = tasks (+) SetToBag({save_file(path, text(content))})
    /\ last' = Step("Save", NoMsg)
    /\ UNCHANGED <<content, error, path, theme, queue, fs, written>>

\* the FileSaved(Ok) arm, were it to drop the path it is given
FileSavedOk_keeps_path ==
    /\ queue # <<>>
    /\ Head(queue).msg = "FileSaved"
    /\ Head(queue).ok
    /\ queue' = Tail(queue)
    /\ last' = Step("FileSaved", Head(queue))
    /\ UNCHANGED <<content, error, path, theme, tasks, fs, written>>

\* the FileSaved(Ok) arm, were it to clear the error on success
FileSavedOk_clears_error ==
    /\ queue # <<>>
    /\ Head(queue).msg = "FileSaved"
    /\ Head(queue).ok
    /\ path' = Some(Head(queue).path)
    /\ error' = None
    /\ queue' = Tail(queue)
    /\ last' = Step("FileSaved", Head(queue))
    /\ UNCHANGED <<content, theme, tasks, fs, written>>

\* Message::FileSaved(Ok(path))
FileSavedOk ==
    /\ queue # <<>>
    /\ Head(queue).msg = "FileSaved"
    /\ Head(queue).ok
    /\ path' = Some(Head(queue).path)
    /\ queue' = Tail(queue)
    /\ last' = Step("FileSaved", Head(queue))
    /\ UNCHANGED <<content, error, theme, tasks, fs, written>>

\* the FileSaved(Err) arm, were it to start a new document
FileSavedErr_resets_buffer ==
    /\ queue # <<>>
    /\ Head(queue).msg = "FileSaved"
    /\ ~Head(queue).ok
    /\ error' = Some(Head(queue).error)
    /\ content' = new_content
    /\ queue' = Tail(queue)
    /\ last' = Step("FileSaved", Head(queue))
    /\ UNCHANGED <<path, theme, tasks, fs, written>>

\* the FileSaved(Err) arm, were it to forget the path
FileSavedErr_clears_path ==
    /\ queue # <<>>
    /\ Head(queue).msg = "FileSaved"
    /\ ~Head(queue).ok
    /\ error' = Some(Head(queue).error)
    /\ path' = None
    /\ queue' = Tail(queue)
    /\ last' = Step("FileSaved", Head(queue))
    /\ UNCHANGED <<content, theme, tasks, fs, written>>

\* the FileSaved(Err) arm, were it to start the save again
FileSavedErr_retries ==
    /\ queue # <<>>
    /\ Head(queue).msg = "FileSaved"
    /\ ~Head(queue).ok
    /\ error' = Some(Head(queue).error)
    /\ queue' = Tail(queue)
    /\ tasks' = tasks (+) SetToBag({save_file(path, text(content))})
    /\ last' = Step("FileSaved", Head(queue))
    /\ UNCHANGED <<content, path, theme, fs, written>>

\* Message::FileSaved(Err(error))
FileSavedErr ==
    /\ queue # <<>>
    /\ Head(queue).msg = "FileSaved"
    /\ ~Head(queue).ok
    /\ error' = Some(Head(queue).error)
    /\ queue' = Tail(queue)
    /\ last' = Step("FileSaved", Head(queue))
    /\ UNCHANGED <<content, path, theme, tasks, fs, written>>

\* Message::ThemeSeleceted(theme)
ThemeSeleceted ==
    \E t \in Themes :
        /\ theme' = t
        /\ last' = Step("ThemeSeleceted", NoMsg)
        /\ UNCHANGED <<content, error, path, tasks, queue, fs, written>>

\* ------------------------------------------------------- the async steps
\* load_file, were the read to create the file it does not find
load_file_creates ==
    \E t \in BagToSet(tasks) :
        /\ t.pc = "read"
        /\ LET p == t.path[1]
           IN  \/ /\ fs[p] # None
                  /\ queue' = Append(queue, Msg("FileOpened", TRUE, p, fs[p][1], None, t, written[p]))
                  /\ fs' = fs
               \/ \E kind \in ErrorKinds :
                     /\ fs[p] = None <=> kind = "NotFound"
                     /\ queue' = Append(queue, Msg("FileOpened", FALSE, None, <<>>, IOFailed(kind), t, None))
                     /\ fs' = IF fs[p] = None THEN [fs EXCEPT ![p] = Some(<<>>)] ELSE fs
        /\ tasks' = Finish(t)
        /\ UNCHANGED <<content, error, path, theme, written, last>>

\* load_file: read_to_string fails with NotFound when there is no file, may
\* fail with another kind when there is one, and otherwise yields its text
load_file ==
    \E t \in BagToSet(tasks) :
        /\ t.pc = "read"
        /\ LET p == t.path[1]
           IN  \/ /\ fs[p] # None
                  /\ queue' = Append(queue, Msg("FileOpened", TRUE, p, fs[p][1], None, t, written[p]))
               \/ \E kind \in ErrorKinds :
                     /\ fs[p] = None <=> kind = "NotFound"
                     /\ queue' = Append(queue, Msg("FileOpened", FALSE, None, <<>>, IOFailed(kind), t, None))
        /\ tasks' = Finish(t)
        /\ UNCHANGED <<content, error, path, theme, fs, written, last>>

\* pick_file, were a closed dialog to end the future without a result
pick_file_drops ==
    \E t \in BagToSet(tasks) :
        /\ t.fn = "pick_file"
        /\ t.pc = "dialog"
        /\ \/ \E p \in Paths :
                 tasks' = Replace(t, Task("pick_file", "read", t.arg, Some(p), <<>>, TRUE))
           \/ tasks' = Finish(t)
        /\ UNCHANGED <<content, error, path, theme, queue, fs, written, last>>

\* pick_file: the open dialog returns a file or is closed
pick_file ==
    \E t \in BagToSet(tasks) :
        /\ t.fn = "pick_file"
        /\ t.pc = "dialog"
        /\ \/ \E p \in Paths :
                 /\ tasks' = Replace(t, Task("pick_file", "read", t.arg, Some(p), <<>>, TRUE))
                 /\ queue' = queue
           \/ /\ tasks' = Finish(t)
              /\ queue' = Append(queue, Msg("FileOpened", FALSE, None, <<>>, DialogClosed,
                                            [t EXCEPT !.dialog = TRUE], None))
        /\ UNCHANGED <<content, error, path, theme, fs, written, last>>

\* save_file, first half: without a path the save dialog returns a file or
\* is closed
save_dialog ==
    \E t \in BagToSet(tasks) :
        /\ t.fn = "save_file"
        /\ t.pc = "dialog"
        /\ \/ \E p \in Paths :
                 /\ tasks' = Replace(t, Task("save_file", "write", t.arg, Some(p), t.text, TRUE))
                 /\ queue' = queue
           \/ /\ tasks' = Finish(t)
              /\ queue' = Append(queue, Msg("FileSaved", FALSE, None, <<>>, DialogClosed,
                                            [t EXCEPT !.dialog = TRUE], None))
        /\ UNCHANGED <<content, error, path, theme, fs, written, last>>

\* the write, were it to store the text the buffer holds when it runs
save_write_current ==
    \E t \in BagToSet(tasks) :
        /\ t.fn = "save_file"
        /\ t.pc = "write"
        /\ LET p == t.path[1]
           IN  \/ /\ fs' = [fs EXCEPT ![p] = Some(text(content))]
                  /\ written' = [written EXCEPT ![p] = Some(text(content))]
                  /\ queue' = Append(queue, Msg("FileSaved", TRUE, p, <<>>, None, t, None))
               \/ /\ \/ UNCHANGED <<fs, written>>
                     \/ /\ fs' = [fs EXCEPT ![p] = Some(<<>>)]
                        /\ written' = [written EXCEPT ![p] = None]
                  /\ queue' = Append(queue, Msg("FileSaved", FALSE, None, <<>>,
                                                IOFailed("PermissionDenied"), t, None))
        /\ tasks' = Finish(t)
        /\ UNCHANGED <<content, error, path, theme, last>>

\* save_file, second half: tokio::fs::write stores the text, or fails and
\* leaves the file as it was or created and empty
save_write ==
    \E t \in BagToSet(tasks) :
        /\ t.fn = "save_file"
        /\ t.pc = "write"
        /\ LET p == t.path[1]
           IN  \/ /\ fs' = [fs EXCEPT ![p] = Some(t.text)]
                  /\ written' = [written EXCEPT ![p] = Some(t.text)]
                  /\ queue' = Append(queue, Msg("FileSaved", TRUE, p, <<>>, None, t, None))
               \/ /\ \/ UNCHANGED <<fs, written>>
                     \/ /\ fs' = [fs EXCEPT ![p] = Some(<<>>)]
                        /\ written' = [written EXCEPT ![p] = None]
                  /\ queue' = Append(queue, Msg("FileSaved", FALSE, None, <<>>,
                                                IOFailed("PermissionDenied"), t, None))
        /\ tasks' = Finish(t)
        /\ UNCHANGED <<content, error, path, theme, last>>

\* ----------------------------------------------------------- Editor::view
\* Path::to_str: the path as text when its bytes are valid Unicode
to_str(p) == IF p = RawPath THEN None ELSE Some(p)

\* Display of std::io::ErrorKind
to_string(kind) ==
    CASE kind = "NotFound" -> "entity not found"
      [] kind = "PermissionDenied" -> "permission denied"

\* the status bar's text on the left
file_path ==
    IF error # None /\ error[1][1] = "IOFailed" THEN to_string(error[1][2])
    ELSE LET shown == IF path = None THEN None ELSE to_str(path[1])
         IN  IF shown = None THEN "New File" ELSE shown[1]

\* decimal digits of a natural number, as format!("{}") writes them
RECURSIVE Decimal(_)
Decimal(n) ==
    LET digit(d) == <<"0", "1", "2", "3", "4", "5", "6", "7", "8", "9">>[d + 1]
    IN  IF n < 10 THEN <<digit(n)>> ELSE Append(Decimal(n \div 10), digit(n % 10))

\* position, were it to show the indices as they are
position_zero_based ==
    LET line   == cursor_position(content)[1]
        column == cursor_position(content)[2]
    IN  Decimal(line) \o <<":">> \o Decimal(column)

\* the status bar's text on the right
position ==
    LET line   == cursor_position(content)[1]
        column == cursor_position(content)[2]
    IN  Decimal(line + 1) \o <<":">> \o Decimal(column + 1)

\* ---------------------------------------------------------- Editor::theme
\* highlighter::Theme::is_dark
is_dark(t) == t # InspiredGitHub

\* theme, with its two results exchanged
Editor_theme_swapped == IF is_dark(theme) THEN "Light" ELSE "Dark"

Editor_theme == IF is_dark(theme) THEN "Dark" ELSE "Light"

Next ==
    \/ Edit
    \/ FileOpenedOk
    \/ FileOpenedErr
    \/ Open
    \/ New
    \/ Save
    \/ FileSavedOk
    \/ FileSavedErr
    \/ ThemeSeleceted
    \/ load_file
    \/ pick_file
    \/ save_dialog
    \/ save_write

Spec == Init /\ [][Next]_vars

\* ---------------------------------------------------------------- fairness
\* the read at the end of load_file, for the futures running function f
Reads(f) ==
    load_file /\ \E t \in BagToSet(tasks) : t.fn = f /\ t.pc = "read" /\ tasks' = Finish(t)

\* the executor runs every future it was given, the user answers every
\* dialog, and the runtime passes every result to update
Fairness ==
    /\ \A f \in {"load_file", "pick_file"} : WF_vars(Reads(f))
    /\ WF_vars(pick_file)
    /\ WF_vars(save_dialog)
    /\ WF_vars(save_write)
    /\ WF_vars(FileOpenedOk \/ FileOpenedErr \/ FileSavedOk \/ FileSavedErr)

\* the editor with a user who presses Open, New and Save only: typing and
\* choosing a theme neither start nor touch an operation
NextLive ==
    \/ FileOpenedOk
    \/ FileOpenedErr
    \/ Open
    \/ New
    \/ Save
    \/ FileSavedOk
    \/ FileSavedErr
    \/ load_file
    \/ pick_file
    \/ save_dialog
    \/ save_write

FairSpec == Init /\ [][NextLive]_vars /\ Fairness

\* =================================================================== claims
\* the step hands the oldest queued result to update
Handling == queue # <<>> /\ queue' = Tail(queue)
\* the step is the last step of the future t
Finishes(t) == t \in BagToSet(tasks) /\ tasks' = Finish(t) /\ Len(queue') = Len(queue) + 1
\* the result a finishing future has just queued
Queued == queue'[Len(queue')]
SaveTasks(ts) == {t \in BagToSet(ts) : t.fn = "save_file"}
IOFailures == {IOFailed(kind) : kind \in ErrorKinds}

\* C1: after Message::New is handled the buffer is empty (one empty line,
\* cursor at its start) and the path is None, whatever the state was and
\* whatever operations are in flight.
C1_NewYieldsEmptyDocument ==
    last.op = "New" =>
        /\ content.lines = <<<<>>>>
        /\ content.cursor = <<0, 0>>
        /\ path = None

\* New handled while an error is recorded and a finished operation waits
C1_Witness ==
    /\ last.op = "New"
    /\ error # None
    /\ queue # <<>>
    /\ path = None

\* C2: a save requested while the path is Some(p) never shows the dialog and
\* so never ends with DialogClosed; its write changes no file but p and on
\* success stores the text at p; and handling its FileSaved(Ok) leaves the
\* path Some(p).
C2_SaveWithPathWritesThere ==
    [][ /\ \A t \in SaveTasks(tasks') :
              t.arg # None => ~t.dialog /\ t.pc = "write" /\ t.path = t.arg
        /\ \A t \in SaveTasks(tasks) :
              (t.arg # None /\ Finishes(t)) =>
                  /\ \A q \in Paths \ {t.arg[1]} : fs'[q] = fs[q]
                  /\ Queued.msg = "FileSaved"
                  /\ Queued.error # DialogClosed
                  /\ Queued.ok => fs'[t.arg[1]] = Some(t.text) /\ Queued.path = t.arg[1]
        /\ LET m == Head(queue) IN
              (Handling /\ m.msg = "FileSaved" /\ m.arg # None) =>
                  /\ ~m.dialog
                  /\ m.error # DialogClosed
                  /\ m.ok => path' = m.arg
      ]_vars

\* FileSaved(Ok) of a save that was given the path has just been handled
C2_Witness ==
    /\ last.op = "FileSaved"
    /\ last.m.ok
    /\ last.m.arg # None
    /\ ~last.m.dialog
    /\ path = last.m.arg
    /\ fs[path[1]] # None

\* C3: a save requested while the path is None shows the save dialog before
\* it writes; when the user picks q and the write succeeds the text is in q,
\* the result is Ok(q), and handling it sets the path to Some(q).
C3_SaveWithoutPathAsks ==
    [][ /\ \A t \in SaveTasks(tasks') :
              t.arg = None =>
                  \/ t.pc = "dialog" /\ ~t.dialog /\ t.path = None
                  \/ t.pc = "write" /\ t.dialog /\ t.path # None
        /\ \A t \in SaveTasks(tasks) :
              (t.arg = None /\ t.pc = "write" /\ Finishes(t) /\ Queued.ok) =>
                  /\ Queued.msg = "FileSaved"
                  /\ Queued.dialog
                  /\ Queued.path = t.path[1]
                  /\ fs'[t.path[1]] = Some(t.text)
        /\ LET m == Head(queue) IN
              (Handling /\ m.msg = "FileSaved" /\ m.arg = None /\ m.ok) =>
                  /\ m.dialog
                  /\ path' = Some(m.path)
      ]_vars

\* FileSaved(Ok(q)) of a save that asked for its file has just been handled
C3_Witness ==
    /\ last.op = "FileSaved"
    /\ last.m.ok
    /\ last.m.arg = None
    /\ last.m.dialog
    /\ path = Some(last.m.path)
    /\ fs[last.m.path] # None

\* C4: handling FileOpened(Err(e)), e an I/O failure or DialogClosed, leaves
\* buffer, path and theme as they were and sets the error to Some(e).
C4_LoadErrorOnlySetsError ==
    [][ LET m == Head(queue) IN
            (Handling /\ m.msg = "FileOpened" /\ ~m.ok) =>
                /\ m.error \in IOFailures \cup {DialogClosed}
                /\ content' = content
                /\ path' = path
                /\ theme' = theme
                /\ error' = Some(m.error)
      ]_vars

\* FileOpened(Err(DialogClosed)) handled with a document open
C4_Witness ==
    /\ last.op = "FileOpened"
    /\ ~last.m.ok
    /\ last.m.error = DialogClosed
    /\ error = Some(DialogClosed)
    /\ path # None
    /\ content # new_content

\* C5: when a save requested without a path has its dialog closed, closing
\* the dialog writes no file and queues FileSaved(Err(DialogClosed)), and
\* handling that result sets the error to Some(DialogClosed) and leaves path,
\* buffer and files as they were (so a path that was None is still None).
C5_DismissedSaveKeepsDocument ==
    [][ /\ \A t \in SaveTasks(tasks) :
              (t.pc = "dialog" /\ Finishes(t)) =>
                  /\ t.arg = None
                  /\ fs' = fs
                  /\ editor' = editor
                  /\ Queued.msg = "FileSaved" /\ ~Queued.ok /\ Queued.error = DialogClosed
        /\ LET m == Head(queue) IN
              (Handling /\ m.msg = "FileSaved" /\ m.error = DialogClosed) =>
                  /\ m.arg = None
                  /\ error' = Some(DialogClosed)
                  /\ path' = path
                  /\ content' = content
                  /\ fs' = fs
      ]_vars

\* the scenario: no path, an edited buffer, the dialog closed, nothing saved
C5_Witness ==
    /\ last.op = "FileSaved"
    /\ last.m.error = DialogClosed
    /\ last.m.arg = None
    /\ error = Some(DialogClosed)
    /\ path = None
    /\ content # new_content
    /\ \A p \in Paths : written[p] = None

\* C6: while a file holds the text t a successful save stored there, reading
\* it yields t, and handling the FileOpened(Ok(p, t)) of such a read leaves a
\* buffer whose text is t and the path Some(p).
C6_SaveThenLoadRoundTrip ==
    [][ /\ \A p \in Paths : written'[p] # None => fs'[p] = written'[p]
        /\ \A t \in BagToSet(tasks) :
              (t.pc = "read" /\ Finishes(t) /\ Queued.ok /\ written[t.path[1]] # None) =>
                  /\ Queued.saved = written[t.path[1]]
                  /\ Queued.text = written[t.path[1]][1]
                  /\ Queued.path = t.path[1]
        /\ LET m == Head(queue) IN
              (Handling /\ m.msg = "FileOpened" /\ m.ok /\ m.saved # None) =>
                  /\ text(content') = m.saved[1]
                  /\ path' = Some(m.path)
      ]_vars

\* a saved text with a letter in it has been loaded back
C6_Witness ==
    /\ last.op = "FileOpened"
    /\ last.m.ok
    /\ last.m.saved # None
    /\ \E i \in DOMAIN last.m.saved[1] : last.m.saved[1][i] = "a"
    /\ text(content) = last.m.saved[1]
    /\ path = Some(last.m.path)

\* C7: handling FileSaved(Err(e)) leaves path and buffer as they were and
\* sets the error to Some(e); the path changes only when New or an Ok result
\* is handled, and then to that result's path: no step of a running save
\* changes it.
C7_FailedSaveKeepsPath ==
    [][ /\ LET m == Head(queue) IN
              (Handling /\ m.msg = "FileSaved" /\ ~m.ok) =>
                  /\ path' = path
                  /\ content' = content
                  /\ error' = Some(m.error)
        /\ path' # path =>
              \/ last'.op = "New" /\ path' = None
              \/ Handling /\ Head(queue).ok
                    /\ path' = Some(Head(queue).path)
      ]_vars

\* a write to a file picked in the dialog failed and its result was handled
C7_Witness ==
    /\ last.op = "FileSaved"
    /\ ~last.m.ok
    /\ last.m.error = IOFailed("PermissionDenied")
    /\ last.m.dialog
    /\ error = Some(last.m.error)
    /\ path = None

\* C8: once the error is Some it stays Some, and it changes only when an Err
\* result is handled, to that result's error: Ok results, New, Edit and
\* ThemeSeleceted leave it alone.
C8_ErrorNeverCleared ==
    [][ /\ error # None => error' # None
        /\ error' # error =>
              /\ Handling
              /\ ~Head(queue).ok
              /\ error' = Some(Head(queue).error)
      ]_vars

\* a save succeeded after an error and the error is still there
C8_Witness ==
    /\ last.op = "FileSaved"
    /\ last.m.ok
    /\ error # None

\* C9: the status bar shows the error text when the error is an I/O failure,
\* otherwise the path when there is one, otherwise "New File".
C9_StatusBarText ==
    file_path =
        IF error # None /\ error[1] \in IOFailures THEN to_string(error[1][2])
        ELSE IF path # None THEN path[1]
        ELSE "New File"

\* C10: before any message is handled the buffer is empty, path and error
\* are None, the theme is the dark SolarizedDark and one operation is in
\* flight; the run has one load_file future of its own, on the default path
\* and without a dialog, whose result is FileOpened(Ok(default path, text))
\* or FileOpened(Err(IOFailed)).
C10_StartupLoad ==
    /\ last.op = "new" =>
          /\ content = [lines |-> <<<<>>>>, cursor |-> <<0, 0>>]
          /\ path = None
          /\ error = None
          /\ theme = SolarizedDark
          /\ is_dark(theme)
          /\ InFlight = 1
          /\ Cardinality({t \in BagToSet(tasks) : t.fn = "load_file"})
                + Cardinality({i \in DOMAIN queue : queue[i].fn = "load_file"}) = 1
    /\ \A t \in BagToSet(tasks) :
          t.fn = "load_file" =>
              /\ tasks[t] = 1
              /\ t.pc = "read"
              /\ t.path = Some(default_load_file)
              /\ ~t.dialog
              /\ \A i \in DOMAIN queue : queue[i].fn # "load_file"
    /\ \A i \in DOMAIN queue :
          queue[i].fn = "load_file" =>
              /\ queue[i].msg = "FileOpened"
              /\ ~queue[i].dialog
              /\ queue[i].ok => queue[i].path = default_load_file
              /\ ~queue[i].ok => queue[i].error \in IOFailures
              /\ \A j \in DOMAIN queue : queue[j].fn = "load_file" => j = i

\* the startup load has succeeded and its result has been handled
C10_Witness ==
    /\ last.op = "FileOpened"
    /\ last.m.fn = "load_file"
    /\ last.m.ok
    /\ ~last.m.dialog
    /\ path = Some(default_load_file)
    /\ text(content) # <<NL>>

\* C11: under FairSpec's fairness every operation delivers one result and
\* none is lost: a future leaves the running set only by queueing exactly
\* one result, FileSaved for save_file and FileOpened for load_file and
\* pick_file; a queued result leaves the queue only by being handled, oldest
\* first; and while an operation of a function is running or its result is
\* queued, a result of that function is eventually handled.
Fns == {"load_file", "pick_file", "save_file"}
Pending(f) ==
    \/ \E t \in BagToSet(tasks) : t.fn = f
    \/ \E i \in DOMAIN queue : queue[i].fn = f

BufferAt(l, c) ==
    [lines |-> [i \in 1..(l + 1) |-> [j \in 1..c |-> "a"]], cursor |-> <<l, c>>]

\* the editor with a typed document and nothing in flight: the default file
\* was missing at startup, the cursor stands anywhere up to MaxCursor
CursorInit ==
    /\ content \in {BufferAt(l, c) : l \in 0..MaxCursor, c \in 0..MaxCursor}
    /\ error = Some(IOFailed("NotFound"))
    /\ path = None
    /\ theme = SolarizedDark
    /\ tasks = EmptyBag
    /\ queue = <<>>
    /\ fs = [p \in Paths |-> None]
    /\ written = [p \in Paths |-> None]
    /\ last = Step("Edit", NoMsg)

\* the messages that start nothing; view runs in every state
CursorNext == Edit \/ New \/ ThemeSeleceted

CursorSpec == CursorInit /\ [][CursorNext]_vars

\* the step is update handling the user's message op (or nothing happens)
UserStep(op) == last'.op = op /\ (last.op # op \/ tasks' = tasks)

\* C12: the render theme is Dark for the dark highlight theme and Light for
\* the light one, in every state; only ThemeSeleceted changes the theme, it
\* sets one of the offered themes, and it changes nothing else.
C12_ThemeFollowsSelection ==
    [][ /\ theme' = SolarizedDark => Editor_theme' = "Dark"
        /\ theme' = InspiredGitHub => Editor_theme' = "Light"
        /\ theme' # theme => last'.op = "ThemeSeleceted" /\ theme' \in Themes
        /\ UserStep("ThemeSeleceted") =>
              /\ content' = content
              /\ path' = path
              /\ error' = error
              /\ tasks' = tasks
              /\ queue' = queue
              /\ fs' = fs
      ]_vars

\* the light theme has been selected in a state with a document and an error
C12_Witness ==
    /\ last.op = "ThemeSeleceted"
    /\ theme = InspiredGitHub
    /\ Editor_theme = "Light"
    /\ path # None
    /\ error # None

\* C13: handling Edit(action) leaves the buffer that performing the action
\* on the buffer gives, so a sequence of Edits leaves what performing the
\* actions in order on a copy of the buffer gives; it changes no other field
\* and starts no operation.
C13_EditDelegates ==
    [][ UserStep("Edit") =>
            /\ \E action \in Actions : content' = perform(content, action)
            /\ path' = path
            /\ error' = error
            /\ theme' = theme
            /\ tasks' = tasks
            /\ queue' = queue
            /\ fs' = fs
      ]_vars

\* an insertion into a loaded document
C13_Witness ==
    /\ last.op = "Edit"
    /\ path # None
    /\ content.cursor = <<0, 1>>
    /\ content.lines[1] = <<"a">>

Digits == <<"0", "1", "2", "3", "4", "5", "6", "7", "8", "9">>

\* the number a string of decimal digits denotes
RECURSIVE Number(_)
Number(s) ==
    IF s = <<>> THEN 0
    ELSE 10 * Number(SubSeq(s, 1, Len(s) - 1))
         + (CHOOSE d \in 0..9 : Digits[d + 1] = s[Len(s)])

\* s is the usual decimal numeral of n
Numeral(s, n) ==
    /\ s # <<>>
    /\ \A k \in DOMAIN s : \E d \in 1..10 : Digits[d] = s[k]
    /\ Len(s) > 1 => s[1] # "0"
    /\ Number(s) = n

\* C14: the cursor text is the numeral of line + 1, a colon, the numeral of
\* column + 1: "1:1" for the cursor at (0, 0), "5:10" at (4, 9).
C14_CursorText ==
    LET line   == content.cursor[1]
        column == content.cursor[2]
    IN  /\ \E i \in DOMAIN position :
              /\ position[i] = ":"
              /\ Numeral(SubSeq(position, 1, i - 1), line + 1)
              /\ Numeral(SubSeq(position, i + 1, Len(position)), column + 1)
        /\ content.cursor = <<0, 0>> => position = <<"1", ":", "1">>
        /\ content.cursor = <<4, 9>> => position = <<"5", ":", "1", "0">>

\* the cursor stands at line 4, column 9 and the text is "5:10"
C14_Witness ==
    /\ content.cursor = <<4, 9>>
    /\ position = <<"5", ":", "1", "0">>
    /\ Len(content.lines) = 5

\* C15: Open and Save are accepted whatever is in flight, results are handled
\* in the order they arrive, and the last one handled wins: an Ok result sets
\* the path to its own path, an Err result sets the error to its own error,
\* and between results only New changes the path and nothing changes the
\* error.
C15_LastCompletionWins ==
    /\ [](InFlight < MaxInFlight => ENABLED Open /\ ENABLED Save)
    /\ [][ LET m == Head(queue)
           IN  /\ (Handling /\ m.ok) => path' = Some(m.path) /\ error' = error
               /\ (Handling /\ ~m.ok) => error' = Some(m.error) /\ path' = path
               /\ path' # path => \/ Handling /\ m.ok
                                  \/ last'.op = "New" /\ path' = None
               /\ error' # error => Handling /\ ~m.ok
         ]_vars

\* the result of a save asked for after startup has been handled, and has
\* set the path, while the startup load is still running
C15_Witness ==
    /\ last.op = "FileSaved"
    /\ last.m.ok
    /\ path = Some(last.m.path)
    /\ \E t \in BagToSet(tasks) : t.fn = "load_file"

\* C16: Open and Save change no field of the editor and start exactly one
\* operation; Edit, New, ThemeSeleceted and the handling of a result start
\* none; the number of operations in flight grows by at most one in a step.
C16_OneOperationPerRequest ==
    [][ /\ BagCardinality(tasks') > BagCardinality(tasks) =>
              /\ last'.op \in {"Open", "Save"}
              /\ editor' = editor
              /\ queue' = queue
              /\ fs' = fs
              /\ \E t \in BagToSet(tasks') :
                    /\ tasks' = tasks (+) SetToBag({t})
                    /\ t.fn = IF last'.op = "Open" THEN "pick_file" ELSE "save_file"
        /\ \A op \in {"Open", "Save"} :
              (last'.op = op /\ last.op # op) =>
                  BagCardinality(tasks') = BagCardinality(tasks) + 1
        /\ \A op \in {"Edit", "New", "ThemeSeleceted"} :
              (last'.op = op /\ last.op # op) => tasks' = tasks /\ queue' = queue
        /\ Handling => tasks' = tasks /\ Len(queue') = Len(queue) - 1
        /\ InFlight' <= InFlight + 1
      ]_vars

\* Save has been pressed twice and both saves are running
C16_Witness ==
    /\ last.op = "Save"
    /\ BagCardinality(tasks) = 2
    /\ \A t \in BagToSet(tasks) : t.fn = "save_file"
    /\ queue = <<>>

\* C17: a save works on the text and the path the editor held when Save was
\* handled: the future is started with them, no later step changes them, and
\* a successful write stores exactly that text, at that path when there was
\* one.
C17_SaveWritesSnapshot ==
    [][ /\ \A t2 \in SaveTasks(tasks') :
              \/ t2 \in BagToSet(tasks)
              \/ \E t \in SaveTasks(tasks) :
                    /\ t.pc = "dialog"
                    /\ t.arg = None
                    /\ t2.pc = "write"
                    /\ t2.text = t.text
                    /\ t2.arg = t.arg
              \/ /\ last'.op = "Save"
                 /\ t2.text = text(content)
                 /\ t2.arg = path
        /\ \A t \in SaveTasks(tasks) :
              (Finishes(t) /\ Queued.ok) =>
                  /\ fs'[Queued.path] = Some(t.text)
                  /\ t.arg # None => Queued.path = t.arg[1]
      ]_vars

\* a save has succeeded and been handled, and the file holds the text of the
\* save although the buffer holds another text by now
C17_Witness ==
    /\ last.op = "FileSaved"
    /\ last.m.ok
    /\ written[last.m.path] # None
    /\ fs[last.m.path] = written[last.m.path]
    /\ written[last.m.path] # Some(text(content))

\* C18: handling FileOpened(Ok((path, text))) leaves a buffer whose lines are
\* exactly those of text, with the cursor at the start, and the path
\* Some(path), whatever the buffer and the path were; the error and the theme
\* stay.
C18_LoadReplacesDocument ==
    [][ LET m == Head(queue)
        IN  (Handling /\ m.msg = "FileOpened" /\ m.ok) =>
                /\ JoinLines(content'.lines) = m.text
                /\ \A i \in DOMAIN content'.lines :
                      \A j \in DOMAIN content'.lines[i] : content'.lines[i][j] # NL
                /\ content'.cursor = <<0, 0>>
                /\ path' = Some(m.path)
                /\ error' = error
                /\ theme' = theme
      ]_vars

\* a file picked in the open dialog has been loaded over an error
C18_Witness ==
    /\ last.op = "FileOpened"
    /\ last.m.ok
    /\ last.m.fn = "pick_file"
    /\ last.m.text = <<"a">>
    /\ content.lines = <<<<"a">>>>
    /\ path = Some(last.m.path)
    /\ error # None

\* C19: after New the path stays None until a load or save asked for after
\* that New succeeds: the results handled next after New, all of operations
\* asked for before it, leave the path None, and the first Save after New
\* starts with the dialog.
C19_PathStaysNoneAfterNew ==
    [][ /\ (last.op = "New" /\ Handling) => path' = None
        /\ (last.op = "New" /\ last'.op = "Save") =>
              \E t \in SaveTasks(tasks') : t \notin BagToSet(tasks) /\ t.pc = "dialog"
      ]_vars

\* C20: a file changes only in the write of a save, and only the file at the
\* path that save works on; update, the loads, the dialogs and a dismissed
\* save change no file.
C20_OnlySavesWrite ==
    [][ /\ fs' # fs =>
              \E t \in SaveTasks(tasks) :
                  /\ t.pc = "write"
                  /\ Finishes(t)
                  /\ \A q \in Paths \ {t.path[1]} : fs'[q] = fs[q]
                  /\ t.arg # None => t.path = t.arg
                  /\ editor' = editor
                  /\ last' = last
        /\ \A t \in BagToSet(tasks) :
              (Finishes(t) /\ (t.fn # "save_file" \/ Queued.error = DialogClosed)) => fs' = fs
        /\ Handling => fs' = fs
        /\ last' # last => fs' = fs
      ]_vars

\* a save has stored a file that did not hold that text at startup while
\* another file still does not exist
C20_Witness ==
    /\ last.op = "FileSaved"
    /\ last.m.ok
    /\ fs[last.m.path] = written[last.m.path]
    /\ \E q \in Paths \ {last.m.path} : fs[q] = None
    /\ error # None

====
